---- MODULE Spec2Model ----
(***************************************************************************)
(* Model of the Kubernetes peer-discovery pool (src/kubernetes.go).        *)
(*                                                                         *)
(* K8sPool owns a client-go SharedIndexInformer.  start() registers the    *)
(* UpdateFunc / DeleteFunc handlers, runs the informer on its own          *)
(* goroutine and polls HasSynced.  The informer is modelled by the steps   *)
(* that K8sPool observes: the reflector's Replace / Add / Update / Delete  *)
(* calls into the DeltaFIFO, the controller's Pop + HandleDeltas (which    *)
(* writes the store and queues a notification), and the listener goroutine *)
(* that calls the registered handlers one notification at a time.          *)
(***************************************************************************)
EXTENDS Integers, Sequences, FiniteSets, TLC

(***************************************************************************)
(* Bounds of the model.                                                    *)
(***************************************************************************)
\* Number of feed operations (watch events and relists) after the first list.
MaxFeedOps == 1
\* Number of Close() calls the owner of the pool makes.
MaxClose == 2
\* Number of events applied to the store when it is exercised on its own.
MaxApplied == 3
\* Capacity of sd.reqChan as modelled; the code makes it with 10000 slots.
ChanCap == 1
\* Number of HandleRPC calls, ticker firings and Stop() calls.
MaxRecords == 2
MaxTicks == 2
MaxStop == 1

(***************************************************************************)
(* Configuration (K8sPoolConfig) and the records the feed can deliver.     *)
(***************************************************************************)
PodIP == "10.0.0.2"
PodPort == "8080"

Keys == {"A", "B"}

\* api_v1.EndpointSubset: the addresses and the ports the record itself carries.
Subset(ips, ports) == [Addresses |-> ips, Ports |-> ports]

\* Objects the feed can hand to the informer.  kind is the Go dynamic type.
Endpoints(k, subsets) == [kind |-> "Endpoints", key |-> k, Subsets |-> subsets]
A1 == Endpoints("A", << Subset(<<"10.0.0.1">>, <<"9090">>) >>)
A2 == Endpoints("A", << Subset(<<"10.0.0.1">>, <<>>),
                        Subset(<<"10.0.0.2", "10.0.0.1">>, <<"9090">>) >>)
B1 == Endpoints("B", << Subset(<<"10.0.0.2">>, <<>>) >>)
\* An object with metadata that is not an *api_v1.Endpoints.
B2 == [kind |-> "Pod", key |-> "B", Subsets |-> <<>>]
Objects == {A1, A2, B1, B2}

\* cache.DeletedFinalStateUnknown: what a relist reports for a vanished key.
Tombstone(k) == [kind |-> "DeletedFinalStateUnknown", key |-> k, Subsets |-> <<>>]

None == [kind |-> "none", key |-> "", Subsets |-> <<>>]

\* A listing returned by ListFunc: at most one object per key.
Listings == { l \in SUBSET Objects : \A x, y \in l : x.key = y.key => x = y }

Range(s) == { s[i] : i \in 1..Len(s) }

\* All orders in which a finite set can be enumerated.
Orderings(S) ==
  { s \in [1..Cardinality(S) -> S] : \A i, j \in 1..Cardinality(S) : s[i] = s[j] => i = j }

\* One fixed enumeration per set (insertion order of a slice built from it).
RECURSIVE SeqOf(_)
SeqOf(S) == IF S = {} THEN << >>
            ELSE LET x == CHOOSE y \in S : TRUE IN << x >> \o SeqOf(S \ {x})

NilDeref == "invalid memory address or nil pointer dereference"
CloseOfClosed == "close of closed channel"
CallbackPanic == "panic in OnUpdate"

VARIABLES
  done,                    \* e.done: TRUE once the channel is closed
  fault,                   \* the panic that ended the process, or "none"
  startPc,                 \* where start() is: "new", "waiting", "checking", "returned"
  startErr,                \* what start() returned: "none", "nil", "timeout"
  closeCalls,              \* Close() calls made; the first one returns normally
  ctrl,                    \* informer's controller + reflector: "new", "running", "stopped"
  proc,                    \* informer's processor (listener): "new", "running", "stopped"
  populated,               \* DeltaFIFO.populated
  initialPopulationCount,  \* DeltaFIFO.initialPopulationCount
  fifo,                    \* DeltaFIFO content, oldest first
  store,                   \* informer.GetStore(): key -> object, None when absent
  pending,                 \* notifications queued for the listener, oldest first
  hPc,                     \* listener goroutine: "idle", "updatePeers", "loop", "callback"
  hList,                   \* result of GetStore().List() in the running updatePeers
  feedOps,                 \* feed operations used after the first list
  \* history variables (read by no action guard)
  initialList,             \* the listing of the first Replace
  initApplied,             \* keys of the first listing already written to the store
  hStores,                 \* store contents seen during the running recomputation
  handled,                 \* update/delete notifications handed to a handler
  calls,                   \* OnUpdate invocations
  lastList, lastPeers,     \* snapshot and argument of the latest OnUpdate
  prevList, prevPeers,     \* snapshot and argument of the one before
  enabled,                 \* conf.Enabled
  applied,                 \* events applied to the store on its own, oldest first
  \* StatsdMetrics
  reqChanMade,             \* sd.reqChan is non-nil
  reqChan,                 \* content of sd.reqChan, oldest first
  methods,                 \* the methods table of Start's closure
  cacheStats,              \* sd.cacheStats: NoCache, or what its Stats(true) returns
  worker,                  \* the goroutine of wg.Until: "none", "running", "exited"
  wgDone,                  \* sd.wg.done: "nil", "open", "closed"
  tickReady,               \* a tick waits in tick.C
  ticks,                   \* firings of the ticker
  rpcPc,                   \* the caller of HandleRPC: "idle", "send"
  rpcRec,                  \* the record HandleRPC is sending
  rpcChan,                 \* the channel value its send statement read
  rpcCalls,                \* HandleRPC calls made
  stopPc,                  \* the caller of Stop(): "idle", "waiting"
  stops,                   \* Stop() calls made
  \* history variables of StatsdMetrics
  consumed,                \* per method: records received since the last tick
  lastConsumed,            \* consumed, as it stood at the last tick
  lastEmit,                \* Gauge and Inc calls of the last tick
  emits,                   \* Gauge and Inc calls made
  closes                   \* sd.client.Close() calls made

poolVars == << done, fault, startPc, startErr, closeCalls, ctrl, proc, populated,
               initialPopulationCount, fifo, store, pending, hPc, hList, feedOps,
               initialList, initApplied, hStores, handled, calls,
               lastList, lastPeers, prevList, prevPeers >>

\* What no step of the running pool changes.
metricsVars == << reqChanMade, reqChan, methods, cacheStats, worker, wgDone,
                  tickReady, ticks, rpcPc, rpcRec, rpcChan, rpcCalls, stopPc, stops,
                  consumed, lastConsumed, lastEmit, emits, closes >>

otherVars == << enabled, applied, metricsVars >>

vars == << poolVars, otherVars >>

engineVars == << done, fault, startPc, startErr, closeCalls >>
informerVars == << ctrl, proc, populated, initialPopulationCount, fifo, store, pending >>
handlerVars == << hPc, hList >>
historyVars == << initialList, initApplied, hStores, handled, calls,
                  lastList, lastPeers, prevList, prevPeers >>

\* The process is alive: no goroutine has panicked.
Alive == fault = "none"

\* The pool as NewK8sPool leaves it (lines 67-73), before start().
PoolInit ==
  /\ done = FALSE
  /\ fault = "none"
  /\ startPc = "new"
  /\ startErr = "none"
  /\ closeCalls = 0
  /\ ctrl = "new"
  /\ proc = "new"
  /\ populated = FALSE
  /\ initialPopulationCount = 0
  /\ fifo = << >>
  /\ store = [k \in Keys |-> None]
  /\ pending = << >>
  /\ hPc = "idle"
  /\ hList = << >>
  /\ feedOps = 0
  /\ initialList = {}
  /\ initApplied = {}
  /\ hStores = {}
  /\ handled = 0
  /\ calls = 0
  /\ lastList = << >>
  /\ lastPeers = << >>
  /\ prevList = << >>
  /\ prevPeers = << >>
  /\ applied = << >>

\* A pool configured with Enabled: true.
\* gRPC full method names, "/pb.V1/GetRateLimits" as its "/"-separated parts.
Methods == { << "pb.V1", "GetRateLimits" >>, << "pb.V1", "HealthCheck" >> }
Durations == {3}
NoItem == [Called |-> 0]
NoCache == [Size |-> -1]
CacheSamples == { [Size |-> 4, Hit |-> 2, Miss |-> 1] }
NoStats == [Method |-> << >>]

\* The zero StatsdMetrics of NewStatsdMetrics (lines 36-42).
MetricsInit ==
  /\ reqChanMade = FALSE
  /\ reqChan = << >>
  /\ methods = [k \in Methods |-> NoItem]
  /\ cacheStats = NoCache
  /\ worker = "none"
  /\ wgDone = "nil"
  /\ tickReady = FALSE
  /\ ticks = 0
  /\ rpcPc = "idle"
  /\ rpcRec = NoStats
  /\ rpcChan = "nil"
  /\ rpcCalls = 0
  /\ stopPc = "idle"
  /\ stops = 0
  /\ consumed = [k \in Methods |-> [n |-> 0, failed |-> 0]]
  /\ lastConsumed = [k \in Methods |-> [n |-> 0, failed |-> 0]]
  /\ lastEmit = {}
  /\ emits = 0
  /\ closes = 0

Init == PoolInit /\ enabled = TRUE /\ MetricsInit

\* A pool configured with Enabled: false.
DisabledInit == PoolInit /\ enabled = FALSE /\ MetricsInit


(***************************************************************************)
(* Pure helpers.                                                           *)
(***************************************************************************)
\* cache.MetaNamespaceKeyFunc: fails on an object without metadata, which is
\* what a DeletedFinalStateUnknown is.  Returns [key, err].
MetaNamespaceKeyFunc(obj) ==
  IF obj.kind = "DeletedFinalStateUnknown"
    THEN [key |-> "", err |-> "object has no meta"]
    ELSE [key |-> obj.key, err |-> "nil"]

\* The key -> object map as the set of objects it holds.
Content(st) == { st[k] : k \in { k \in Keys : st[k] # None } }

\* HasSynced that reports the list call alone, not its processing.
HasSynced_Populated == populated

\* informer.HasSynced: DeltaFIFO.HasSynced.
HasSynced == populated /\ initialPopulationCount = 0

\* The inner loop with the owner test applied to the synthesized address.
RECURSIVE PeersOfAddresses_OwnerByAddress(_)
PeersOfAddresses_OwnerByAddress(addrs) ==
  IF addrs = << >> THEN << >>
  ELSE LET ip == Head(addrs)
           peer == [Address |-> ip \o ":" \o PodPort,
                    IsOwner |-> (ip \o ":" \o PodPort = PodIP)]
       IN << peer >> \o PeersOfAddresses_OwnerByAddress(Tail(addrs))

\* The inner loop of updatePeers over s.Addresses (lines 145-153).
RECURSIVE PeersOfAddresses(_)
PeersOfAddresses(addrs) ==
  IF addrs = << >> THEN << >>
  ELSE LET ip == Head(addrs)
           peer == [Address |-> ip \o ":" \o PodPort, IsOwner |-> (ip = PodIP)]
       IN << peer >> \o PeersOfAddresses(Tail(addrs))

\* The loops with the port taken from the record when it carries one.
RECURSIVE PeersOfAddressesPort(_, _)
PeersOfAddressesPort(addrs, port) ==
  IF addrs = << >> THEN << >>
  ELSE LET ip == Head(addrs)
           peer == [Address |-> ip \o ":" \o port, IsOwner |-> (ip = PodIP)]
       IN << peer >> \o PeersOfAddressesPort(Tail(addrs), port)

RECURSIVE PeersOfSubsets_RecordPort(_)
PeersOfSubsets_RecordPort(subsets) ==
  IF subsets = << >> THEN << >>
  ELSE LET s == Head(subsets)
           port == IF s.Ports = << >> THEN PodPort ELSE Head(s.Ports)
       IN PeersOfAddressesPort(s.Addresses, port) \o PeersOfSubsets_RecordPort(Tail(subsets))

\* The loop of updatePeers over endpoint.Subsets (lines 144-154).
RECURSIVE PeersOfSubsets(_)
PeersOfSubsets(subsets) ==
  IF subsets = << >> THEN << >>
  ELSE PeersOfAddresses(Head(subsets).Addresses) \o PeersOfSubsets(Tail(subsets))

\* The outer loop of updatePeers over the listed objects (lines 138-155).
\* The type assertion at line 139 leaves endpoint nil for any other type, the
\* check at line 140 only logs, and line 144 then dereferences endpoint.
RECURSIVE BuildPeers(_)
BuildPeers(list) ==
  IF list = << >> THEN [panic |-> FALSE, peers |-> << >>]
  ELSE IF Head(list).kind # "Endpoints" THEN [panic |-> TRUE, peers |-> << >>]
  ELSE LET rest == BuildPeers(Tail(list))
       IN [panic |-> rest.panic,
           peers |-> IF rest.panic THEN << >>
                     ELSE PeersOfSubsets(Head(list).Subsets) \o rest.peers]

\* Whether the DeltaFIFO holds a delta of key k.
Queued(q, k) == \E i \in 1..Len(q) : q[i].obj.key = k

\* DeltaFIFO.queueActionLocked: append, except that two consecutive deletions
\* of one key are merged, the one that carries the object being kept.
QueueAction(q, type, obj) ==
  LET idx == { i \in 1..Len(q) : q[i].obj.key = obj.key }
      m == CHOOSE i \in idx : \A j \in idx : j <= i
  IN IF type = "Deleted" /\ idx # {} /\ q[m].type = "Deleted"
       THEN IF obj.kind = "DeletedFinalStateUnknown" THEN q
            ELSE [q EXCEPT ![m] = [type |-> type, obj |-> obj]]
       ELSE Append(q, [type |-> type, obj |-> obj])

RECURSIVE QueueAll(_, _, _)
QueueAll(q, type, objs) ==
  IF objs = << >> THEN q
  ELSE QueueAll(QueueAction(q, type, Head(objs)), type, Tail(objs))

(***************************************************************************)
(* start() and Close().                                                    *)
(***************************************************************************)
\* start(), lines 80-125: build the informer, register the handlers and run
\* the informer on its own goroutine.
Start ==
  /\ Alive
  /\ UNCHANGED otherVars
  /\ startPc = "new"
  /\ startPc' = "waiting"
  /\ ctrl' = "running"
  /\ proc' = "running"
  /\ UNCHANGED << done, fault, startErr, closeCalls, populated, initialPopulationCount,
                  fifo, store, pending, feedOps >>
  /\ UNCHANGED handlerVars
  /\ UNCHANGED historyVars

\* cache.WaitForCacheSync(e.done, ...), line 127: wait.PollUntil waits for the
\* next poll tick or for e.done.  It gives up only when e.done is closed, and
\* start() then closes e.done itself (line 128).
PollWait ==
  /\ Alive
  /\ UNCHANGED otherVars
  /\ startPc = "waiting"
  /\ IF done
       THEN /\ fault' = CloseOfClosed
            /\ UNCHANGED << startPc, startErr >>
       ELSE /\ startPc' = "checking"
            /\ UNCHANGED << fault, startErr >>
  /\ UNCHANGED << done, closeCalls >>
  /\ UNCHANGED informerVars
  /\ UNCHANGED handlerVars
  /\ UNCHANGED << feedOps >>
  /\ UNCHANGED historyVars

\* The poll's condition, informer.HasSynced (line 127), and the return of
\* start() at line 132 when it holds.
PollHasSynced ==
  /\ Alive
  /\ UNCHANGED otherVars
  /\ startPc = "checking"
  /\ IF HasSynced
       THEN /\ startPc' = "returned"
            /\ startErr' = "nil"
       ELSE /\ startPc' = "waiting"
            /\ UNCHANGED startErr
  /\ UNCHANGED << done, fault, closeCalls >>
  /\ UNCHANGED informerVars
  /\ UNCHANGED handlerVars
  /\ UNCHANGED << feedOps >>
  /\ UNCHANGED historyVars

\* Close(), lines 159-161.  Only the caller of NewK8sPool holds the pool, so
\* Close() comes after start() returned.  Closing a closed channel panics.
Close ==
  /\ Alive
  /\ UNCHANGED otherVars
  /\ startPc = "returned"
  /\ closeCalls < MaxClose
  /\ closeCalls' = closeCalls + 1
  /\ IF done
       THEN fault' = CloseOfClosed /\ UNCHANGED done
       ELSE done' = TRUE /\ UNCHANGED fault
  /\ UNCHANGED << startPc, startErr >>
  /\ UNCHANGED informerVars
  /\ UNCHANGED handlerVars
  /\ UNCHANGED << feedOps >>
  /\ UNCHANGED historyVars


(***************************************************************************)
(* The informer started at line 125: reflector, DeltaFIFO and controller.  *)
(* The DeltaFIFO is kept as one sequence of deltas; client-go groups the   *)
(* deltas of a key, which changes no per-key order.                        *)
(***************************************************************************)
\* The reflector lists (ListFunc, lines 82-85) and calls DeltaFIFO.Replace:
\* a Sync delta per listed object, a Deleted delta carrying a
\* DeletedFinalStateUnknown per stored key that the listing lacks (the store
\* reports its keys in map order), and on the first call the population count.
\* The first call is the initial list; a later one is a relist after the watch
\* broke.
Replace ==
  /\ Alive
  /\ UNCHANGED otherVars
  /\ ctrl = "running"
  /\ populated => feedOps < MaxFeedOps
  /\ \E listing \in Listings :
       LET listed == { o.key : o \in listing }
           gone == { k \in Keys : store[k] # None /\ k \notin listed }
       IN \E order \in Orderings(gone) :
            LET synced == QueueAll(fifo, "Sync", SeqOf(listing))
                tombs == [i \in 1..Len(order) |-> Tombstone(order[i])]
            IN /\ fifo' = QueueAll(synced, "Deleted", tombs)
               /\ IF populated
                    THEN /\ feedOps' = feedOps + 1
                         /\ UNCHANGED << populated, initialPopulationCount, initialList >>
                    ELSE /\ populated' = TRUE
                         /\ initialPopulationCount' = Cardinality(listing) + Cardinality(gone)
                         /\ initialList' = listing
                         /\ UNCHANGED feedOps
  /\ UNCHANGED << ctrl, proc, store, pending >>
  /\ UNCHANGED engineVars
  /\ UNCHANGED handlerVars
  /\ UNCHANGED << initApplied, hStores, handled, calls,
                  lastList, lastPeers, prevList, prevPeers >>

\* A watch event (WatchFunc, lines 86-89) of type Added or Modified: the
\* reflector calls the DeltaFIFO's Add or Update.
WatchUpsert ==
  /\ Alive
  /\ UNCHANGED otherVars
  /\ ctrl = "running"
  /\ populated
  /\ feedOps < MaxFeedOps
  /\ feedOps' = feedOps + 1
  /\ \E obj \in Objects :
       LET type == IF store[obj.key] # None \/ Queued(fifo, obj.key)
                     THEN "Updated" ELSE "Added"
       IN fifo' = QueueAction(fifo, type, obj)
  /\ UNCHANGED << ctrl, proc, populated, initialPopulationCount, store, pending >>
  /\ UNCHANGED engineVars
  /\ UNCHANGED handlerVars
  /\ UNCHANGED historyVars

\* A watch event of type Deleted: the reflector calls DeltaFIFO.Delete, which
\* drops the event when the key is neither stored nor queued.
WatchDelete ==
  /\ Alive
  /\ UNCHANGED otherVars
  /\ ctrl = "running"
  /\ populated
  /\ feedOps < MaxFeedOps
  /\ feedOps' = feedOps + 1
  /\ \E obj \in Objects :
       IF store[obj.key] = None /\ ~Queued(fifo, obj.key)
         THEN UNCHANGED fifo
         ELSE fifo' = QueueAction(fifo, "Deleted", obj)
  /\ UNCHANGED << ctrl, proc, populated, initialPopulationCount, store, pending >>
  /\ UNCHANGED engineVars
  /\ UNCHANGED handlerVars
  /\ UNCHANGED historyVars

\* A store in which the first record written under a key stays.
ApplyDelta_FirstWins(st, d) ==
  IF d.type = "Deleted" THEN [st EXCEPT ![d.obj.key] = None]
  ELSE IF st[d.obj.key] # None THEN st
  ELSE [st EXCEPT ![d.obj.key] = d.obj]

\* A store in which a deletion of an absent key leaves the deleted object.
ApplyDelta_DeleteMarks(st, d) ==
  IF d.type = "Deleted"
    THEN IF st[d.obj.key] = None THEN [st EXCEPT ![d.obj.key] = d.obj]
         ELSE [st EXCEPT ![d.obj.key] = None]
    ELSE [st EXCEPT ![d.obj.key] = d.obj]

\* The store after sharedIndexInformer.HandleDeltas applied delta d.
ApplyDelta(st, d) ==
  IF d.type = "Deleted" THEN [st EXCEPT ![d.obj.key] = None]
  ELSE [st EXCEPT ![d.obj.key] = d.obj]

\* The notification HandleDeltas distributes for delta d: obj is the argument
\* the handler keys (the old object of an update, the deleted object).
NotificationFor(st, d) ==
  IF d.type = "Deleted" THEN [op |-> "delete", obj |-> d.obj]
  ELSE IF st[d.obj.key] # None THEN [op |-> "update", obj |-> st[d.obj.key]]
  ELSE [op |-> "add", obj |-> d.obj]

\* The controller's processLoop: DeltaFIFO.Pop under the queue's lock, with
\* HandleDeltas writing the store and queueing the notification for the
\* listener.
HandleDeltas ==
  /\ Alive
  /\ UNCHANGED otherVars
  /\ ctrl = "running"
  /\ fifo # << >>
  /\ LET d == Head(fifo)
     IN /\ fifo' = Tail(fifo)
        /\ initialPopulationCount' =
             IF initialPopulationCount > 0 THEN initialPopulationCount - 1 ELSE 0
        /\ store' = ApplyDelta(store, d)
        /\ pending' = IF proc = "running" THEN Append(pending, NotificationFor(store, d))
                      ELSE pending
        /\ initApplied' = IF initialPopulationCount > 0 /\ d.type = "Sync"
                            THEN initApplied \cup {d.obj.key} ELSE initApplied
        /\ hStores' = IF hPc \in {"updatePeers", "loop"}
                        THEN hStores \cup {ApplyDelta(store, d)} ELSE hStores
  /\ UNCHANGED << ctrl, proc, populated >>
  /\ UNCHANGED engineVars
  /\ UNCHANGED handlerVars
  /\ UNCHANGED << feedOps, initialList, handled, calls,
                  lastList, lastPeers, prevList, prevPeers >>

\* informer.Run(e.done) once e.done is closed: controller.Run returns, the
\* reflector and the processLoop have stopped and the queue is closed.
ControllerStop ==
  /\ Alive
  /\ UNCHANGED otherVars
  /\ done
  /\ ctrl = "running"
  /\ ctrl' = "stopped"
  /\ UNCHANGED << proc, populated, initialPopulationCount, fifo, store, pending >>
  /\ UNCHANGED engineVars
  /\ UNCHANGED handlerVars
  /\ UNCHANGED << feedOps >>
  /\ UNCHANGED historyVars

\* informer.Run's deferred close(processorStopCh): the listener's queue is
\* closed and what it still held is dropped.  A handler that is already
\* running is not interrupted.
ProcessorStop ==
  /\ Alive
  /\ UNCHANGED otherVars
  /\ ctrl = "stopped"
  /\ proc = "running"
  /\ proc' = "stopped"
  /\ pending' = << >>
  /\ UNCHANGED << ctrl, populated, initialPopulationCount, fifo, store >>
  /\ UNCHANGED engineVars
  /\ UNCHANGED handlerVars
  /\ UNCHANGED << feedOps >>
  /\ UNCHANGED historyVars


(***************************************************************************)
(* The listener goroutine: it takes one notification at a time and calls   *)
(* the handler registered at lines 96-123.                                 *)
(***************************************************************************)
\* An add notification: AddFunc is commented out (lines 97-104), nothing runs.
OnAdd ==
  /\ Alive
  /\ UNCHANGED otherVars
  /\ proc = "running"
  /\ hPc = "idle"
  /\ pending # << >>
  /\ Head(pending).op = "add"
  /\ pending' = Tail(pending)
  /\ UNCHANGED << ctrl, proc, populated, initialPopulationCount, fifo, store >>
  /\ UNCHANGED engineVars
  /\ UNCHANGED handlerVars
  /\ UNCHANGED << feedOps >>
  /\ UNCHANGED historyVars

\* A handler that starts on the next notification without waiting for the
\* running one to return.
HandlerBody_Concurrent(op) ==
  /\ Alive
  /\ UNCHANGED otherVars
  /\ proc = "running"
  /\ pending # << >>
  /\ Head(pending).op = op
  /\ pending' = Tail(pending)
  /\ handled' = handled + 1
  /\ IF MetaNamespaceKeyFunc(Head(pending).obj).err # "nil"
       THEN UNCHANGED << hPc, hStores >>
       ELSE /\ hPc' = "updatePeers"
            /\ hStores' = {store}
  /\ UNCHANGED << ctrl, proc, populated, initialPopulationCount, fifo, store >>
  /\ UNCHANGED engineVars
  /\ UNCHANGED << hList, feedOps >>
  /\ UNCHANGED << initialList, initApplied, calls,
                  lastList, lastPeers, prevList, prevPeers >>

\* The body shared by UpdateFunc (lines 105-113) and DeleteFunc (lines
\* 114-122): key the object, return on an error, else call updatePeers.
HandlerBody(op) ==
  /\ Alive
  /\ UNCHANGED otherVars
  /\ proc = "running"
  /\ hPc = "idle"
  /\ pending # << >>
  /\ Head(pending).op = op
  /\ pending' = Tail(pending)
  /\ handled' = handled + 1
  /\ IF MetaNamespaceKeyFunc(Head(pending).obj).err # "nil"
       THEN UNCHANGED << hPc, hStores >>
       ELSE /\ hPc' = "updatePeers"
            /\ hStores' = {store}
  /\ UNCHANGED << ctrl, proc, populated, initialPopulationCount, fifo, store >>
  /\ UNCHANGED engineVars
  /\ UNCHANGED << hList, feedOps >>
  /\ UNCHANGED << initialList, initApplied, calls,
                  lastList, lastPeers, prevList, prevPeers >>

UpdateFunc == HandlerBody("update")

DeleteFunc == HandlerBody("delete")

\* A List() that hands back one record only, not the whole store.
StoreList_Delta ==
  IF Content(store) = {} THEN { << >> } ELSE { << o >> : o \in Content(store) }

\* e.informer.GetStore().List() at line 138: a copy of the store's values taken
\* under the store's lock, in the iteration order of a Go map.
StoreList == Orderings(Content(store))

\* updatePeers up to the List() call (lines 136-138).
UpdatePeersList ==
  /\ Alive
  /\ UNCHANGED otherVars
  /\ hPc = "updatePeers"
  /\ \E l \in StoreList : hList' = l
  /\ hPc' = "loop"
  /\ UNCHANGED engineVars
  /\ UNCHANGED informerVars
  /\ UNCHANGED << feedOps >>
  /\ UNCHANGED historyVars

\* updatePeers from the loop to the call of e.conf.OnUpdate (lines 138-156).
UpdatePeersLoop ==
  /\ Alive
  /\ UNCHANGED otherVars
  /\ hPc = "loop"
  /\ LET built == BuildPeers(hList)
     IN IF built.panic
          THEN /\ fault' = NilDeref
               /\ UNCHANGED << hPc, hList, calls,
                               lastList, lastPeers, prevList, prevPeers >>
          ELSE /\ hPc' = "callback"
               /\ calls' = calls + 1
               /\ lastList' = hList
               /\ lastPeers' = built.peers
               /\ prevList' = lastList
               /\ prevPeers' = lastPeers
               /\ UNCHANGED << fault, hList >>
  /\ UNCHANGED << done, startPc, startErr, closeCalls >>
  /\ UNCHANGED informerVars
  /\ UNCHANGED << feedOps, initialList, initApplied, hStores, handled >>

\* The consumer's OnUpdate returns, then updatePeers and the handler.
OnUpdateReturn ==
  /\ Alive
  /\ UNCHANGED otherVars
  /\ hPc = "callback"
  /\ hPc' = "idle"
  /\ hList' = << >>
  /\ hStores' = {}
  /\ UNCHANGED engineVars
  /\ UNCHANGED informerVars
  /\ UNCHANGED << feedOps, initialList, initApplied, handled, calls,
                  lastList, lastPeers, prevList, prevPeers >>

\* The consumer's OnUpdate panics (line 156).  Neither updatePeers nor the
\* handlers recover, and the listener goroutine re-panics: the process dies.
OnUpdatePanics ==
  /\ Alive
  /\ UNCHANGED otherVars
  /\ hPc = "callback"
  /\ fault' = CallbackPanic
  /\ UNCHANGED << done, startPc, startErr, closeCalls >>
  /\ UNCHANGED informerVars
  /\ UNCHANGED handlerVars
  /\ UNCHANGED << feedOps >>
  /\ UNCHANGED historyVars

Next ==
  \/ Start
  \/ PollWait
  \/ PollHasSynced
  \/ Close
  \/ Replace
  \/ WatchUpsert
  \/ WatchDelete
  \/ HandleDeltas
  \/ ControllerStop
  \/ ProcessorStop
  \/ OnAdd
  \/ UpdateFunc
  \/ DeleteFunc
  \/ UpdatePeersList
  \/ UpdatePeersLoop
  \/ OnUpdateReturn
  \/ OnUpdatePanics

Spec == Init /\ [][Next]_vars

\* The same pool built from a configuration with Enabled: false.
DisabledSpec == DisabledInit /\ [][Next]_vars


\* The Go scheduler runs every runnable goroutine: start(), the informer's
\* goroutines and the listener.  The feed and the caller of Close() are not
\* obliged to act.
FairSpec ==
  /\ Spec
  /\ WF_vars(Start)
  /\ WF_vars(PollWait)
  /\ WF_vars(PollHasSynced)
  /\ WF_vars(HandleDeltas)
  /\ WF_vars(ControllerStop)
  /\ WF_vars(ProcessorStop)
  /\ WF_vars(OnAdd)
  /\ WF_vars(UpdateFunc)
  /\ WF_vars(DeleteFunc)
  /\ WF_vars(UpdatePeersList)
  /\ WF_vars(UpdatePeersLoop)
  /\ WF_vars(OnUpdateReturn)

(***************************************************************************)
(* Properties.                                                             *)
(***************************************************************************)
IPs == {"10.0.0.1", "10.0.0.2"}

\* Every (record, subset, address) position of a list of records.
AddrOccurrences(list) ==
  UNION { UNION { { << n, i, j >> : j \in 1..Len(list[n].Subsets[i].Addresses) }
                  : i \in 1..Len(list[n].Subsets) }
          : n \in 1..Len(list) }

IPAt(list, t) == list[t[1]].Subsets[t[2]].Addresses[t[3]]

\* How many entries of a peer list carry the address of ip.
EntriesFor(peers, ip) ==
  Cardinality({ i \in 1..Len(peers) : peers[i].Address = ip \o ":" \o PodPort })

\* C1: once a Close() has returned, OnUpdate is not invoked again.
C1_NoCallbackAfterClose == [][closeCalls > 0 => calls' = calls]_vars

\* C2: no Close() call faults: closing twice never panics the process.
C2_CloseIsIdempotent == fault # CloseOfClosed

\* C3: if the feed never signals has-synced, start() eventually returns a
\* sync-timeout error to its caller.
C3_StartTimesOut ==
  ([]~HasSynced) => <>(startPc = "returned" /\ startErr = "timeout")

\* C4 as stated: at the step at which start() returns nil, has-synced holds and
\* the store holds every record of the initial listing.
C4_StoreHoldsInitialList ==
  [][(startPc # "returned" /\ startPc' = "returned")
       => (HasSynced' /\ \A o \in initialList' : store'[o.key] = o)]_vars

\* C4 amended: when start() has returned nil, the feed has listed, has-synced
\* holds and every record of the initial listing has been written to the store
\* (a later watch event may have changed or removed it since).
C4_ReturnsAfterInitialSync ==
  startErr = "nil" =>
    /\ populated
    /\ initialPopulationCount = 0
    /\ initApplied = { o.key : o \in initialList }

C4_Witness ==
  /\ startErr = "nil"
  /\ Cardinality(initialList) = 2
  /\ \E o \in initialList : store[o.key] # o


\* C5: every update or delete notification handed to a handler has led to
\* exactly one OnUpdate invocation by the time the listener is idle again (an
\* add notification is not counted in handled and must add no invocation).
C5_OneCallbackPerEvent == hPc = "idle" => calls = handled

\* The peer entries a store content s stands for, counted per address.
ExpectedFor(s, ip) ==
  Cardinality({ t \in { << k, i, j >> \in Keys \X (1..2) \X (1..2) :
                          /\ s[k].kind = "Endpoints"
                          /\ i <= Len(s[k].Subsets)
                          /\ j <= Len(s[k].Subsets[i].Addresses) }
                : s[t[1]].Subsets[t[2]].Addresses[t[3]] = ip })

\* C6: the list an OnUpdate invocation receives is the complete content of the
\* store as it stood at one instant of that recomputation.
C6_ListFromOneStoreState ==
  hPc = "callback" =>
    \E s \in hStores :
      /\ \A ip \in IPs : EntriesFor(lastPeers, ip) = ExpectedFor(s, ip)
      /\ Len(lastPeers) = ExpectedFor(s, "10.0.0.1") + ExpectedFor(s, "10.0.0.2")

C6_Witness ==
  /\ hPc = "callback"
  /\ Cardinality(hStores) = 2
  /\ Len(lastPeers) >= 2
  /\ \E s \in hStores : EntriesFor(lastPeers, "10.0.0.2") # ExpectedFor(s, "10.0.0.2")

\* C7: an entry is marked owner exactly when its address is the one built
\* from PodIP, and there is one owner entry per occurrence of PodIP in the
\* snapshot: all of them when several records carry it, none when none does.
C7_OwnerIffPodIP ==
  calls > 0 =>
    /\ \A i \in 1..Len(lastPeers) :
         lastPeers[i].IsOwner <=> (lastPeers[i].Address = PodIP \o ":" \o PodPort)
    /\ Cardinality({ i \in 1..Len(lastPeers) : lastPeers[i].IsOwner })
         = Cardinality({ t \in AddrOccurrences(lastList) : IPAt(lastList, t) = PodIP })

C7_Witness ==
  /\ calls > 0
  /\ Cardinality({ i \in 1..Len(lastPeers) : lastPeers[i].IsOwner }) = 2
  /\ \E i \in 1..Len(lastPeers) : ~lastPeers[i].IsOwner

C7_WitnessNoOwner ==
  /\ calls > 0
  /\ lastPeers # << >>
  /\ \A i \in 1..Len(lastPeers) : ~lastPeers[i].IsOwner

\* C8: the list has exactly one entry per address occurrence of the snapshot,
\* each addressed host:PodPort; records A (10.0.0.1) and B (10.0.0.2) give
\* exactly {10.0.0.1:8080, false} and {10.0.0.2:8080, true}.
C8_OneEntryPerAddress ==
  calls > 0 =>
    /\ Len(lastPeers) = Cardinality(AddrOccurrences(lastList))
    /\ \A ip \in IPs :
         EntriesFor(lastPeers, ip)
           = Cardinality({ t \in AddrOccurrences(lastList) : IPAt(lastList, t) = ip })
    /\ Range(lastList) = {A1, B1} =>
         /\ Len(lastPeers) = 2
         /\ Range(lastPeers) = { [Address |-> "10.0.0.1:8080", IsOwner |-> FALSE],
                                 [Address |-> "10.0.0.2:8080", IsOwner |-> TRUE] }

C8_Witness ==
  /\ calls > 0
  /\ Range(lastList) = {A2, B1}
  /\ Len(lastPeers) = 4

C8_WitnessExample ==
  /\ calls > 0
  /\ Range(lastList) = {A1, B1}
  /\ Len(lastPeers) = 2

\* C9: two recomputations over the same store content deliver the same
\* sequence of entries.
C9_DeterministicOrder ==
  (calls >= 2 /\ Range(prevList) = Range(lastList)) => prevPeers = lastPeers

\* The entries of the well-formed records of a list, in list order.
RECURSIVE WellFormed(_)
WellFormed(list) ==
  IF list = << >> THEN << >>
  ELSE IF Head(list).kind = "Endpoints" THEN << Head(list) >> \o WellFormed(Tail(list))
  ELSE WellFormed(Tail(list))

\* C10: when the listed snapshot holds a record that is not an Endpoints, the
\* loop of updatePeers ends without a fault in a call of OnUpdate whose list
\* holds the entries of the well-formed records and no others.
C10_MalformedSkipped ==
  [][(/\ hPc = "loop"
      /\ \E i \in 1..Len(hList) : hList[i].kind # "Endpoints"
      /\ (hPc' # hPc \/ fault' # fault))
       => (/\ hPc' = "callback"
           /\ fault' = fault
           /\ calls' = calls + 1
           /\ Len(lastPeers') = Cardinality(AddrOccurrences(WellFormed(hList))))]_vars


(***************************************************************************)
(* The informer's store on its own: any sequence of add, update and delete *)
(* events applied in order, as HandleDeltas applies them, without the      *)
(* DeltaFIFO in front of it.                                               *)
(***************************************************************************)
StoreApply(d) ==
  /\ Len(applied) < MaxApplied
  /\ store' = ApplyDelta(store, d)
  /\ applied' = Append(applied, d)
  /\ UNCHANGED << done, fault, startPc, startErr, closeCalls, ctrl, proc, populated,
                  initialPopulationCount, fifo, pending, hPc, hList, feedOps,
                  initialList, initApplied, hStores, handled, calls,
                  lastList, lastPeers, prevList, prevPeers, enabled >>
  /\ UNCHANGED metricsVars

StoreAdd == \E obj \in Objects : StoreApply([type |-> "Added", obj |-> obj])

StoreUpdate == \E obj \in Objects : StoreApply([type |-> "Updated", obj |-> obj])

StoreDelete ==
  \E obj \in Objects \cup { Tombstone(k) : k \in Keys } :
    StoreApply([type |-> "Deleted", obj |-> obj])

StoreNext == StoreAdd \/ StoreUpdate \/ StoreDelete

StoreSpec == Init /\ [][StoreNext]_vars

\* The last-write-per-key reduction of an event sequence: the record of the
\* key's last event when that is an add or update, nothing otherwise.
LastWrite(events, k) ==
  LET idx == { i \in 1..Len(events) : events[i].obj.key = k }
  IN IF idx = {} THEN None
     ELSE LET m == CHOOSE i \in idx : \A j \in idx : j <= i
          IN IF events[m].type = "Deleted" THEN None ELSE events[m].obj

(***************************************************************************)
(* StatsdMetrics: HandleRPC sends outcome records into sd.reqChan, the      *)
(* goroutine of sd.wg.Until aggregates them and emits them at every tick.   *)
(***************************************************************************)
notMetrics == << poolVars, enabled, applied >>

\* k[strings.LastIndex(k, "/")+1:] at line 67.
LastSegment(k) == k[Len(k)]

\* fmt.Sprintf("api.%s.<what>", method) at lines 68-70.
ApiName(k, what) == << "api", LastSegment(k), what >>

\* The Gauge and Inc calls of the loop at lines 66-71.
EmitMethods(tbl) ==
  UNION { { << "Gauge", ApiName(k, "duration"), tbl[k].Duration >>,
            << "Inc", ApiName(k, "total"), tbl[k].Called >>,
            << "Inc", ApiName(k, "failed"), tbl[k].Failed >> }
          : k \in { m \in Methods : tbl[m] # NoItem } }

\* The Inc calls of lines 76-81.
EmitCache(cs) ==
  IF cs = NoCache THEN {}
  ELSE { << "Inc", << "cache", "size" >>, cs.Size >>,
         << "Inc", << "cache", "hit" >>, cs.Hit >>,
         << "Inc", << "cache", "miss" >>, cs.Miss >> }

\* RegisterCacheStats (line 121).
RegisterCacheStats ==
  /\ cacheStats = NoCache
  /\ \E c \in CacheSamples : cacheStats' = c
  /\ UNCHANGED << reqChanMade, reqChan, methods, worker, wgDone,
                  tickReady, ticks, rpcPc, rpcRec, rpcChan, rpcCalls, stopPc, stops,
                  consumed, lastConsumed, lastEmit, emits, closes >>
  /\ UNCHANGED notMetrics

\* Start() (lines 44-90): makes the channel, the table and the ticker, and
\* wg.Until makes wg.done and starts the goroutine.
MetricsStart ==
  /\ worker = "none"
  /\ stopPc = "idle"
  /\ reqChanMade' = TRUE
  /\ reqChan' = << >>
  /\ methods' = [k \in Methods |-> NoItem]
  /\ wgDone' = IF wgDone = "nil" THEN "open" ELSE wgDone
  /\ worker' = "running"
  /\ UNCHANGED << cacheStats, tickReady, ticks, rpcPc, rpcRec, rpcChan, rpcCalls,
                  stopPc, stops, consumed, lastConsumed, lastEmit, emits, closes >>
  /\ UNCHANGED notMetrics

\* The ticker of line 48 fires; tick.C holds one tick at most.
Tick ==
  /\ worker = "running"
  /\ ticks < MaxTicks
  /\ ticks' = ticks + 1
  /\ tickReady' = TRUE
  /\ UNCHANGED << reqChanMade, reqChan, methods, cacheStats, worker, wgDone,
                  rpcPc, rpcRec, rpcChan, rpcCalls, stopPc, stops,
                  consumed, lastConsumed, lastEmit, emits, closes >>
  /\ UNCHANGED notMetrics

\* case stat := <-sd.reqChan (lines 51-63).  item is a copy of the table's
\* entry: what lines 55-59 change is dropped at the return of line 60.
WorkerRecv ==
  /\ worker = "running"
  /\ reqChan # << >>
  /\ LET stat == Head(reqChan)
         item == methods[stat.Method]
         ok == item # NoItem
         changed == [item EXCEPT !.Failed = item.Failed + stat.Failed,
                                 !.Called = item.Called + 1,
                                 !.Duration = IF item.Duration > stat.Duration
                                                THEN stat.Duration ELSE item.Duration]
     IN /\ reqChan' = Tail(reqChan)
        /\ IF ok
             THEN /\ changed.Called = item.Called + 1
                  /\ methods' = methods
             ELSE methods' = [methods EXCEPT ![stat.Method] =
                                [Called |-> 1, Failed |-> stat.Failed,
                                 Duration |-> stat.Duration]]
        /\ consumed' = [consumed EXCEPT ![stat.Method] =
                          [n |-> @.n + 1, failed |-> @.failed + stat.Failed]]
  /\ UNCHANGED << reqChanMade, cacheStats, worker, wgDone, tickReady, ticks,
                  rpcPc, rpcRec, rpcChan, rpcCalls, stopPc, stops,
                  lastConsumed, lastEmit, emits, closes >>
  /\ UNCHANGED notMetrics

\* case <-tick.C (lines 64-81).
WorkerTick ==
  /\ worker = "running"
  /\ tickReady
  /\ tickReady' = FALSE
  /\ LET out == EmitMethods(methods) \cup EmitCache(cacheStats)
     IN /\ lastEmit' = out
        /\ emits' = emits + Cardinality(out)
  /\ methods' = [k \in Methods |-> NoItem]
  /\ lastConsumed' = consumed
  /\ consumed' = [k \in Methods |-> [n |-> 0, failed |-> 0]]
  /\ UNCHANGED << reqChanMade, reqChan, cacheStats, worker, wgDone, ticks,
                  rpcPc, rpcRec, rpcChan, rpcCalls, stopPc, stops, closes >>
  /\ UNCHANGED notMetrics

\* A done case that leaves without closing the client.
WorkerDone_NoClose ==
  /\ worker = "running"
  /\ wgDone = "closed"
  /\ worker' = "exited"
  /\ UNCHANGED << reqChanMade, reqChan, methods, cacheStats, wgDone, tickReady, ticks,
                  rpcPc, rpcRec, rpcChan, rpcCalls, stopPc, stops,
                  consumed, lastConsumed, lastEmit, emits, closes >>
  /\ UNCHANGED notMetrics

\* case <-done (lines 82-85): stop the ticker, close the client, return false;
\* wg.Until's loop ends.
WorkerDone ==
  /\ worker = "running"
  /\ wgDone = "closed"
  /\ closes' = closes + 1
  /\ worker' = "exited"
  /\ UNCHANGED << reqChanMade, reqChan, methods, cacheStats, wgDone, tickReady, ticks,
                  rpcPc, rpcRec, rpcChan, rpcCalls, stopPc, stops,
                  consumed, lastConsumed, lastEmit, emits >>
  /\ UNCHANGED notMetrics

\* Stop() (lines 92-94), wg.Stop up to wg.Wait: close wg.done if there is one.
MetricsStop ==
  /\ stopPc = "idle"
  /\ stops < MaxStop
  /\ stops' = stops + 1
  /\ stopPc' = "waiting"
  /\ wgDone' = IF wgDone = "open" THEN "closed" ELSE wgDone
  /\ UNCHANGED << reqChanMade, reqChan, methods, cacheStats, worker, tickReady, ticks,
                  rpcPc, rpcRec, rpcChan, rpcCalls,
                  consumed, lastConsumed, lastEmit, emits, closes >>
  /\ UNCHANGED notMetrics

\* wg.Wait returns once the goroutine has left; wg.done becomes nil.
StopReturn ==
  /\ stopPc = "waiting"
  /\ worker # "running"
  /\ stopPc' = "idle"
  /\ wgDone' = "nil"
  /\ UNCHANGED << reqChanMade, reqChan, methods, cacheStats, worker, tickReady, ticks,
                  rpcPc, rpcRec, rpcChan, rpcCalls, stops,
                  consumed, lastConsumed, lastEmit, emits, closes >>
  /\ UNCHANGED notMetrics

\* HandleRPC with no stats in the context, or for an event that is not
\* *stats.End (lines 97-109): it returns.
HandleRPCIgnored ==
  /\ rpcPc = "idle"
  /\ rpcCalls < MaxRecords
  /\ rpcCalls' = rpcCalls + 1
  /\ UNCHANGED << reqChanMade, reqChan, methods, cacheStats, worker, wgDone,
                  tickReady, ticks, rpcPc, rpcRec, rpcChan, stopPc, stops,
                  consumed, lastConsumed, lastEmit, emits, closes >>
  /\ UNCHANGED notMetrics

\* HandleRPC for *stats.End up to the send (lines 110-115): the record of
\* TagRPC (line 128) gets its duration and failure mark, and the send
\* statement reads sd.reqChan.
HandleRPCEnd ==
  /\ rpcPc = "idle"
  /\ rpcCalls < MaxRecords
  /\ rpcCalls' = rpcCalls + 1
  /\ \E m \in Methods, d \in Durations, error \in BOOLEAN :
       rpcRec' = [Method |-> m, Duration |-> d, Failed |-> IF error THEN 1 ELSE 0]
  /\ rpcChan' = IF reqChanMade THEN "reqChan" ELSE "nil"
  /\ rpcPc' = "send"
  /\ UNCHANGED << reqChanMade, reqChan, methods, cacheStats, worker, wgDone,
                  tickReady, ticks, stopPc, stops,
                  consumed, lastConsumed, lastEmit, emits, closes >>
  /\ UNCHANGED notMetrics

\* sd.reqChan <- rs (line 115) completes: the channel is not nil and has room.
HandleRPCSend ==
  /\ rpcPc = "send"
  /\ rpcChan = "reqChan"
  /\ Len(reqChan) < ChanCap
  /\ reqChan' = Append(reqChan, rpcRec)
  /\ rpcPc' = "idle"
  /\ rpcRec' = NoStats
  /\ UNCHANGED << reqChanMade, methods, cacheStats, worker, wgDone,
                  tickReady, ticks, rpcChan, rpcCalls, stopPc, stops,
                  consumed, lastConsumed, lastEmit, emits, closes >>
  /\ UNCHANGED notMetrics

MetricsNext ==
  \/ RegisterCacheStats
  \/ MetricsStart
  \/ Tick
  \/ WorkerRecv
  \/ WorkerTick
  \/ WorkerDone
  \/ MetricsStop
  \/ StopReturn
  \/ HandleRPCIgnored
  \/ HandleRPCEnd
  \/ HandleRPCSend

MetricsSpec == Init /\ [][MetricsNext]_vars

\* The Go scheduler runs the goroutine of wg.Until and the blocked callers;
\* select takes a ready case at random, so a ready case is taken in the end.
\* Callers of Start, Stop and HandleRPC and the ticker are not obliged to act.
MetricsFairSpec ==
  /\ MetricsSpec
  /\ WF_vars(WorkerRecv)
  /\ WF_vars(WorkerTick)
  /\ WF_vars(WorkerDone)
  /\ WF_vars(StopReturn)
  /\ WF_vars(HandleRPCSend)

\* The values emitted under a name at the last tick.
Emitted(kind, name) == { e[3] : e \in { x \in lastEmit : x[1] = kind /\ x[2] = name } }

\* C11: with Enabled = false the engine is a no-op: the informer is never
\* started, the store is never populated and OnUpdate is never invoked.
C11_DisabledIsNoOp ==
  ~enabled =>
    /\ ctrl = "new"
    /\ proc = "new"
    /\ ~populated
    /\ Content(store) = {}
    /\ calls = 0


\* C12: once a Close() has returned, the informer's goroutines and the
\* listener have exited and the store is not written any more.
C12_WorkerExitedAtClose ==
  [][closeCalls > 0 =>
       (ctrl = "stopped" /\ proc = "stopped" /\ hPc = "idle" /\ store' = store)]_vars


\* C13: after any sequence of add/update/delete events applied in order, the
\* store equals the last-write-per-key reduction of the sequence.
C13_StoreIsLastWrite == \A k \in Keys : store[k] = LastWrite(applied, k)

C13_Witness ==
  /\ Len(applied) = 3
  /\ applied[1] = [type |-> "Added", obj |-> A1]
  /\ applied[2].type = "Deleted" /\ applied[2].obj.key = "A"
  /\ applied[3] = [type |-> "Added", obj |-> A2]
  /\ store["A"] = A2

\* C14: applying a delete for a key that the store does not hold (never
\* seen, or removed by an earlier identical delete) faults nothing and leaves
\* the store as it was.
C14_DeleteAbsentIsNoOp ==
  [][(/\ Len(applied') = Len(applied) + 1
      /\ applied'[Len(applied')].type = "Deleted"
      /\ store[applied'[Len(applied')].obj.key] = None)
       => (store' = store /\ fault' = fault)]_vars

C14_Witness ==
  /\ Len(applied) = 3
  /\ applied[1] = [type |-> "Added", obj |-> B1]
  /\ applied[2] = [type |-> "Deleted", obj |-> B1]
  /\ applied[3] = applied[2]
  /\ Content(store) = {}


\* C15: a panic of the consumer's OnUpdate is isolated from the worker: it
\* never becomes the fault that stops the listener and with it every later
\* OnUpdate invocation.
C15_CallbackFailureIsolated == fault # CallbackPanic

\* C16: without a Close(), after a successful start, when no delta is queued,
\* no notification is pending and the listener is idle, the list last handed
\* to OnUpdate is the list the current store content stands for.
C16_ViewConverges ==
  (/\ Alive
   /\ closeCalls = 0
   /\ startErr = "nil"
   /\ fifo = << >>
   /\ pending = << >>
   /\ hPc = "idle")
    => /\ \A ip \in IPs : EntriesFor(lastPeers, ip) = ExpectedFor(store, ip)
       /\ Len(lastPeers) = ExpectedFor(store, "10.0.0.1") + ExpectedFor(store, "10.0.0.2")

\* C17: a handler begins only when the listener is idle, on the oldest pending
\* notification, and OnUpdate is entered only from the one running
\* recomputation: invocations never overlap and follow delivery order.
C17_CallbacksSerialized ==
  [][/\ handled' # handled => (hPc = "idle" /\ pending' = Tail(pending))
     /\ calls' # calls => (hPc = "loop" /\ hPc' = "callback" /\ calls' = calls + 1)
     /\ (hPc # "idle" /\ hPc' = "updatePeers") => hPc = "updatePeers"]_vars

C17_Witness ==
  /\ hPc = "callback"
  /\ pending # << >>
  /\ Head(pending).op \in {"update", "delete"}
  /\ MetaNamespaceKeyFunc(Head(pending).obj).err = "nil"


\* C18: at each tick, a method with records received since the previous tick
\* is emitted with total = the number of those records and failed = the number
\* of them marked failed; a method without records is not emitted; the table
\* is empty after the emission.
C18_AggregationExact ==
  \A k \in Methods :
    /\ Emitted("Inc", ApiName(k, "total"))
         = IF lastConsumed[k].n > 0 THEN { lastConsumed[k].n } ELSE {}
    /\ Emitted("Inc", ApiName(k, "failed"))
         = IF lastConsumed[k].n > 0 THEN { lastConsumed[k].failed } ELSE {}
    /\ consumed[k].n = 0 => methods[k] = NoItem

\* C19: once Stop() has closed wg.done of a started StatsdMetrics the worker
\* goroutine exits; the client's Close() is called once, by then, and no Gauge
\* or Inc follows it, whatever records and ticks are pending.
C19_CleanShutdown ==
  /\ [](closes <= 1)
  /\ [](worker = "exited" <=> closes = 1)
  /\ [][closes > 0 => emits' = emits]_vars
  /\ ((stopPc = "waiting" /\ worker = "running") ~> (worker = "exited"))

C19_Witness ==
  /\ worker = "exited"
  /\ closes = 1
  /\ reqChan # << >>
  /\ tickReady
  /\ emits > 0

\* C20: a HandleRPC call is never left at its send with no way to complete it:
\* sending on a nil channel (before Start), or on a full channel that the
\* exited worker does not drain any more (after Stop).
C20_HandleRPCReturns ==
  ~(/\ rpcPc = "send"
    /\ \/ rpcChan = "nil"
       \/ (worker = "exited" /\ Len(reqChan) = ChanCap))

====
